---- MODULE Spec2Model ----
(***************************************************************************)
(* State-machine model of src/app.js (class App): the settings document,   *)
(* the token registry, the host's tokens and settings store, the START /   *)
(* END / SET_CURRENCY / CALCULATION flow actions, and the host replies the *)
(* asynchronous methods wait for.                                          *)
(*                                                                         *)
(* Scheduling.  A top-level operation (onInit, an external updateSettings, *)
(* a flow action) starts only when no other one is in progress.  An async  *)
(* method runs synchronously up to its first await on host I/O; the code   *)
(* after the await is a separate step taken when the host replies.  Calls  *)
(* of async methods that the code does not await (createToken/removeToken  *)
(* inside setTokens) leave their continuation behind as a pending reply    *)
(* that is delivered later, possibly after the operation has returned.     *)
(* The host serves the calls of one app in the order they are issued: a    *)
(* call takes effect on the host when it is issued and its reply comes     *)
(* back later, replies to createToken in issue order.                      *)
(***************************************************************************)
EXTENDS Integers, Sequences, FiniteSets, TLC

\* ------------------------------------------------------------------ bounds

\* START is not offered once COMPARISONS holds this many entries.
MaxComparisons == 2
\* The host creates at most this many tokens for the app between restarts:
\* the four tokens of a name and one more.
MaxHandles == 5
\* Bound on the operations waiting at their settings write while others run.
MaxSuspended == 1

\* ------------------------------------------------------------------ inputs

Names == {"a", "b"}
\* VARIABLES is an ordered set of names.
VarLists == {<<>>, <<"a">>}
\* Readings of the clock (new Date()).
Times == {1}
\* The options START is called with: dateStart and the baseline.
StartOptions == {[dateStart |-> <<"boolean", TRUE>>, comparison |-> 1]}
\* Numbers handed to END as the final value.
Numbers == {0, 1, 3}
CurrencyNumbers == {5}
\* Currency codes are strings written as sequences of characters.
CurrencyCodes == {<<"E", "U", "R">>, <<"n", "o", "t", "-", "a", "-", "c", "o", "d", "e">>}
CalcTypes == {"add", "bogus"}
CalcOperands == {2}

\* ------------------------------------------------------------------ values

\* JavaScript values are tagged tuples; the tag fixes the shape of the rest.
Null == <<"null">>
NoValue == <<"undefined">>
Num(n) == <<"number", n>>
Bool(b) == <<"boolean", b>>
\* The string Number.prototype.toFixed(2) gives for the integer n.
Fixed2(n) == <<"fixed2", n>>
Date(t) == <<"date", t>>

\* `undefined` where an object is expected.
UndefinedObject == [undefined |-> TRUE]
NoError == "ok"

Truthy(v) == v # Null /\ v # NoValue /\ v # Num(0) /\ v # Bool(FALSE)

\* x.name === token for an entry x of COMPARISONS or TOTALS: a missing
\* property is undefined, which is strictly equal to no string.
NameIs(x, token) == "name" \in DOMAIN x /\ x.name = token

\* parseFloat of a number or of a toFixed(2) string.
parseFloat(v) == Num(v[2])

\* ------------------------------------------------------------------ helpers

\* this.homey.__(`helpers.${src}`) and lib/helpers formatToken: the
\* identifier of the token of `name` for the kind `src`.
formatToken(name, src) == <<name, src>>

Kinds == <<"duration", "currency", "comparison", "calculation">>
Ids == {formatToken(n, Kinds[k]) : n \in Names, k \in 1..4}

\* lib/helpers splitTime applied to the seconds between two dates.
splitTime(seconds) == <<"duration", seconds>>

\* lib/helpers calculationType.
calculationType(calcType, number1, number2) ==
    CASE calcType = "add" -> Num(number1 + number2)
      [] calcType = "subtract" -> Num(number1 - number2)
      [] calcType = "multiply" -> Num(number1 * number2)
      [] OTHER -> NoValue
calculationTypeKnown(calcType) == calcType \in {"add", "subtract", "multiply"}

UpperCaseLetters ==
    <<"A", "B", "C", "D", "E", "F", "G", "H", "I", "J", "K", "L", "M",
      "N", "O", "P", "Q", "R", "S", "T", "U", "V", "W", "X", "Y", "Z">>
LowerCaseLetters ==
    <<"a", "b", "c", "d", "e", "f", "g", "h", "i", "j", "k", "l", "m",
      "n", "o", "p", "q", "r", "s", "t", "u", "v", "w", "x", "y", "z">>

\* The character ch in upper case.
ToUpperCase(ch) ==
    IF \E i \in 1..Len(LowerCaseLetters) : LowerCaseLetters[i] = ch
    THEN UpperCaseLetters[CHOOSE i \in 1..Len(LowerCaseLetters) : LowerCaseLetters[i] = ch]
    ELSE ch

IsLetter(ch) == \E i \in 1..Len(UpperCaseLetters) : ToUpperCase(ch) = UpperCaseLetters[i]

\* Whether toLocaleString takes the currency code: a well-formed code is
\* three letters, in either case; any other throws RangeError.
currencyCodeValid(currency) ==
    Len(currency) = 3 /\ \A i \in 1..Len(currency) : IsLetter(currency[i])

\* Number.prototype.toLocaleString with { style: 'currency', currency }: the
\* number formatted in the currency of the code, whose case does not matter.
toLocaleString(number, currency) ==
    <<"currency", number, [i \in 1..Len(currency) |-> ToUpperCase(currency[i])]>>

Abs(x) == IF x < 0 THEN -x ELSE x

calculateDuration(startDate, endDate) ==
    splitTime(Abs(startDate[2] - endDate[2]))

calculateComparison(start, end) ==
    IF start = Null
    THEN Num(0)                      \* parseFloat(null) is NaN, NaN is falsy
    ELSE LET comparison == parseFloat(end)[2] - parseFloat(start)[2]
         IN  IF comparison # 0 THEN Fixed2(comparison) ELSE Num(0)

\* ------------------------------------------------------------------ sequences

RECURSIVE FindIndex(_, _, _)
\* The least index >= i of an entry of s whose property `name` is token, or 0.
FindIndex(s, token, i) ==
    IF i > Len(s) THEN 0
    ELSE IF NameIs(s[i], token) THEN i
    ELSE FindIndex(s, token, i + 1)

\* Array.prototype.find((x) => x.name === token)
FindByName(s, token) ==
    LET i == FindIndex(s, token, 1)
    IN  IF i = 0 THEN UndefinedObject ELSE s[i]

\* Array.prototype.filter((x) => x.name !== token)
FilterByName(s, token) == SelectSeq(s, LAMBDA x : ~NameIs(x, token))

Includes(s, x) == \E i \in 1..Len(s) : s[i] = x

\* oldSettings.filter((x) => !newSettings.includes(x))
Difference(oldSettings, newSettings) ==
    SelectSeq(oldSettings, LAMBDA x : ~Includes(newSettings, x))

DefaultSettings == [VARIABLES |-> <<>>, COMPARISONS |-> <<>>, TOTALS |-> <<>>]

\* ------------------------------------------------------------------ tokens

\* A token state ts is [TOKENS, host, pending, calls]:
\*   TOKENS[id]   the handle this.TOKENS holds for id (0: no entry),
\*   host[id]     the tokens the host has created for id, by handle number,
\*   pending      the host createToken calls whose reply is still to come,
\*   calls        the host token calls issued so far by the running code.

\* The host's side of flow.createToken(id, { type, title }).
\* The host keeps type and title; app.js never reads them back.
HostCreateToken(host, id, type) ==
    [host EXCEPT ![id] = Append(@, [live |-> TRUE, value |-> NoValue])]

\* The host's side of handle.setValue(value); a token that was unregistered
\* has no value any more.
HostSetValue(host, id, h, value) ==
    IF host[id][h].live
    THEN [host EXCEPT ![id][h].value = value]
    ELSE host

\* The host's side of handle.unregister().
HostUnregister(host, id, h) ==
    [host EXCEPT ![id][h].live = FALSE, ![id][h].value = NoValue]

\* this.TOKENS[id].setValue(value), line 116.
SetValueCall(ts, id, value) ==
    [ts EXCEPT !.host = HostSetValue(@, id, ts.TOKENS[id], value),
               !.calls = @ \cup {<<"setValue", id>>}]

\* if (!this.TOKENS[id]), line 108.
RegistryMisses(TOKENS, id) == TOKENS[id] = 0

\* A createToken that leaves the kind out of the title it builds the
\* identifier from, so that every kind of a name shares one token.
createTokenWithoutKind(ts, name, src, value, type, owner) ==
    LET id == formatToken(name, "duration")
    IN  IF RegistryMisses(ts.TOKENS, id)
        THEN [ts EXCEPT
                !.host = HostCreateToken(@, id, type),
                !.pending = Append(@, [id |-> id, h |-> Len(ts.host[id]) + 1,
                                       value |-> value, owner |-> owner]),
                !.calls = @ \cup {<<"createToken", id>>}]
        ELSE SetValueCall(ts, id, value)

\* createToken up to its first await: lines 95-109 when the registry has no
\* entry (the host call is issued, the assignment waits for the reply), lines
\* 95-108 and 116 when it has one.
createToken(ts, name, src, value, type, owner) ==
    LET id == formatToken(name, src)
    IN  IF RegistryMisses(ts.TOKENS, id)
        THEN [ts EXCEPT
                !.host = HostCreateToken(@, id, type),
                !.pending = Append(@, [id |-> id, h |-> Len(ts.host[id]) + 1,
                                       value |-> value, owner |-> owner]),
                !.calls = @ \cup {<<"createToken", id>>}]
        ELSE SetValueCall(ts, id, value)

\* What the caller of createToken waits for after the synchronous part.
createTokenAwaits(ts, name, src) ==
    IF RegistryMisses(ts.TOKENS, formatToken(name, src))
    THEN "createToken" ELSE "setValue"

\* What removeToken does to the registry entry once unregister is requested,
\* lines 124-127: nothing.
RegistryAfterRemove(TOKENS, id) == TOKENS

\* removeToken up to its await, lines 119-125.
removeToken(ts, name, src) ==
    LET id == formatToken(name, src)
    IN  IF ts.TOKENS[id] # 0
        THEN [ts EXCEPT
                !.host = HostUnregister(@, id, ts.TOKENS[id]),
                !.TOKENS = RegistryAfterRemove(@, id),
                !.calls = @ \cup {<<"unregister", id>>}]
        ELSE ts

\* The four createToken calls of lines 78-81 for one name.
CreateFour(ts, t) ==
    LET t1 == createToken(ts, t, "duration", Null, "string", "floating")
        t2 == createToken(t1, t, "currency", Null, "string", "floating")
        t3 == createToken(t2, t, "comparison", Null, "number", "floating")
    IN  createToken(t3, t, "calculation", Null, "number", "floating")

\* The four removeToken calls of lines 87-90 for one name.
RemoveFour(ts, d) ==
    removeToken(removeToken(removeToken(removeToken(ts, d, "duration"),
        d, "currency"), d, "comparison"), d, "calculation")

RECURSIVE CreateAll(_, _, _)
CreateAll(ts, names, i) ==
    IF i > Len(names) THEN ts
    ELSE CreateAll(CreateFour(ts, names[i]), names, i + 1)

RECURSIVE RemoveAll(_, _, _)
RemoveAll(ts, names, i) ==
    IF i > Len(names) THEN ts
    ELSE RemoveAll(RemoveFour(ts, names[i]), names, i + 1)

\* setTokens(newSettings, oldSettings = []), lines 76-93: every call inside is
\* made without await, so the method returns after the synchronous parts.
setTokens(ts, newSettings, oldSettings) ==
    LET created == CreateAll(ts, newSettings, 1)
    IN  IF Len(oldSettings) # 0
        THEN RemoveAll(created, Difference(oldSettings, newSettings), 1)
        ELSE created

RECURSIVE SumLen(_, _)
SumLen(h, S) ==
    IF S = {} THEN 0
    ELSE LET id == CHOOSE x \in S : TRUE
         IN  Len(h[id]) + SumLen(h, S \ {id})

\* The number of tokens the host has created for the app since it started.
HandlesUsed(h) == SumLen(h, Ids)

\* The host has room for the createToken calls setTokens(names) would issue.
NeedsHandle(ts, names) ==
    HandlesUsed(ts.host)
        + Cardinality({id \in Ids : RegistryMisses(ts.TOKENS, id)
                                     /\ Includes(names, id[1])})
      <= MaxHandles

\* ------------------------------------------------------------------ state

VARIABLES
    appSettings,    \* this.appSettings: the in-memory settings document
    stored,         \* the host's settings store: the value under _settingsKey
    TOKENS,         \* this.TOKENS: identifier -> handle (0: no entry)
    host,           \* the host's tokens: identifier -> sequence of tokens
    pending,        \* host createToken calls awaiting their reply, oldest first
    op,             \* the top-level operation in progress
    phase,          \* "constructed", "running" (flow actions registered), "failed"
    suspended       \* operations waiting at line 66 while the host calls others

vars == <<appSettings, stored, TOKENS, host, pending, op, phase, suspended>>

\* The settings key is absent from the host's store.
Absent == [absent |-> TRUE]

NoTokens == [id \in Ids |-> 0]
NoHostTokens == [id \in Ids |-> <<>>]

Idle == [kind |-> "none", pc |-> "idle", token |-> "", update |-> FALSE,
         old |-> UndefinedObject, doc |-> UndefinedObject, src |-> "",
         value |-> Null, duration |-> Null, comparison |-> Null,
         result |-> NoError, writeFailed |-> FALSE]

TokenState == [TOKENS |-> TOKENS, host |-> host, pending |-> pending, calls |-> {}]

\* The token variables take the values of the token state ts.
TokensBecome(ts) ==
    /\ TOKENS' = ts.TOKENS
    /\ host' = ts.host
    /\ pending' = ts.pending

Returns(o, result) == [o EXCEPT !.pc = "return", !.result = result]

Init ==
    /\ appSettings = UndefinedObject
    /\ stored = Absent
    /\ TOKENS = NoTokens
    /\ host = NoHostTokens
    /\ pending = <<>>
    /\ op = Idle
    /\ phase = "constructed"
    /\ suspended = <<>>

\* ------------------------------------------------------------------ settings

\* A catch that logs the error and throws it again.
updateSettingsRethrow(err) == err

\* The catch of updateSettings, lines 71-73: the error is logged and dropped.
updateSettingsCatch(err) == NoError

\* updateSettings writing the document it found instead of the new one.
updateSettingsCallWritesOld(o, settings, update) ==
    /\ appSettings' = settings
    /\ op' = [o EXCEPT !.pc = "set", !.old = appSettings, !.doc = appSettings,
                       !.update = update]

\* updateSettings up to its await, lines 61-66, called by the operation o.
updateSettingsCall(o, settings, update) ==
    /\ appSettings' = settings
    /\ op' = [o EXCEPT !.pc = "set", !.old = appSettings, !.doc = settings,
                       !.update = update]

\* An updateSettings that assigns the document it was given once more when
\* its write has been answered.
SettingsAssignedAfterReply(current, doc) == doc

\* this.appSettings once the write has been answered, lines 66-73: nothing
\* is assigned after the await.
SettingsAfterReply(current, doc) == current

\* Whether lines 68-70 run setTokens once the write has been answered.
SyncsTokens(ok, update) == ok /\ update

\* updateSettings after its await, lines 68-70: the token state it leaves.
updateSettingsResume(ts, o, ok) ==
    IF SyncsTokens(ok, o.update) /\ o.old # UndefinedObject
    THEN setTokens(ts, o.doc.VARIABLES, o.old.VARIABLES)
    ELSE ts

\* An awaited createToken call of the operation o, lines 169, 171, 179, 186.
AwaitCreateToken(o, name, src, value, type) ==
    /\ TokensBecome(createToken(TokenState, name, src, value, type, "awaited"))
    /\ op' = [o EXCEPT !.pc = createTokenAwaits(TokenState, name, src), !.src = src]

\* The host has room for the createToken call of the token of name and src.
HasRoom(name, src) ==
    RegistryMisses(TOKENS, formatToken(name, src)) => HandlesUsed(host) < MaxHandles

\* ------------------------------------------------------------------ onInit

\* onInit, lines 20-29, with initSettings, lines 33-58, up to the first await.
onInit(readFails) ==
    /\ phase = "constructed"
    /\ op.kind = "none"
    /\ IF readFails
       THEN \* getKeys throws: caught on line 55; line 24 reads
            \* this.appSettings.VARIABLES of undefined.
            /\ op' = Returns([Idle EXCEPT !.kind = "onInit"], "TypeError")
            /\ phase' = "failed"
            /\ UNCHANGED <<appSettings, stored, TOKENS, host, pending>>
       ELSE IF stored # Absent
       THEN /\ appSettings' = stored
            /\ TokensBecome(setTokens([TOKENS |-> NoTokens, host |-> host,
                                       pending |-> pending, calls |-> {}],
                                      stored.VARIABLES, <<>>))
            /\ op' = Returns([Idle EXCEPT !.kind = "onInit"], NoError)
            /\ phase' = "running"
            /\ UNCHANGED stored
       ELSE /\ TOKENS' = NoTokens
            /\ updateSettingsCall([Idle EXCEPT !.kind = "onInit"], DefaultSettings, FALSE)
            /\ UNCHANGED <<stored, host, pending, phase>>
    /\ UNCHANGED suspended

\* The host restarts the app: the process state and the app's tokens are
\* gone, the settings store is kept.
Restart ==
    /\ appSettings' = UndefinedObject
    /\ TOKENS' = NoTokens
    /\ host' = NoHostTokens
    /\ pending' = <<>>
    /\ op' = Idle
    /\ phase' = "constructed"
    /\ suspended' = <<>>
    /\ UNCHANGED stored

\* ------------------------------------------------------------------ operations

\* updateSettings(settings, true) called from outside with a new VARIABLES list.
updateSettings(variables) ==
    /\ phase = "running"
    /\ op.kind = "none"
    /\ NeedsHandle(TokenState, variables)
    /\ updateSettingsCall([Idle EXCEPT !.kind = "updateSettings"],
                          [appSettings EXCEPT !.VARIABLES = variables], TRUE)
    /\ UNCHANGED <<stored, TOKENS, host, pending, phase, suspended>>

\* The entry action_START appends, line 144.
StartEntry(token, date, comparison) ==
    [token |-> token, date |-> date, comparison |-> comparison]

\* A start that keeps nothing of the list it found.
StartComparisonsAnew(comparisons, token, date, comparison) ==
    <<StartEntry(token, date, comparison)>>

\* The COMPARISONS list action_START builds, lines 140-144.
StartComparisons(comparisons, token, date, comparison) ==
    Append(FilterByName(comparisons, token), StartEntry(token, date, comparison))

\* action_START(token, { dateStart, comparison }), lines 132-146.
action_START(token, dateStart, now, comparison) ==
    /\ phase = "running"
    /\ op.kind = "none"
    /\ Len(appSettings.COMPARISONS) < MaxComparisons
    /\ LET date == IF Truthy(dateStart) THEN Date(now) ELSE dateStart   \* line 139
       IN  updateSettingsCall([Idle EXCEPT !.kind = "START", !.token = token,
                                           !.value = comparison],
               [appSettings EXCEPT !.COMPARISONS =
                    StartComparisons(@, token, date, comparison)], FALSE)
    /\ UNCHANGED <<stored, TOKENS, host, pending, phase, suspended>>

\* The error action_END ends with before it writes anything, lines 150-157:
\* line 151 reads existing_comparison.date before line 153 tests
\* existing_comparison.
EndError(existing_comparison) ==
    IF existing_comparison = UndefinedObject THEN "TypeError"       \* line 151
    ELSE IF existing_comparison = UndefinedObject THEN "NotFound"   \* line 153
    ELSE NoError

\* The entry action_END appends, line 166.
EndEntry(token, duration, comparison) ==
    [token |-> token, duration |-> duration, comparison |-> comparison]

\* The document action_END hands to updateSettings, lines 162-167.
EndSettings(settings, token, duration, comparison) ==
    [settings EXCEPT !.TOTALS =
         Append(FilterByName(@, token), EndEntry(token, duration, comparison))]

\* The comparison action_END computes, line 160.
EndComparison(existing_comparison, value) ==
    IF Truthy(value)
    THEN calculateComparison(existing_comparison.comparison, value)
    ELSE Null

\* Whether action_END sets the comparison token, line 170.
PublishesComparison(comparison) == Truthy(comparison)

\* action_END(token, value = null), lines 148-167.
action_END(token, value, now) ==
    /\ phase = "running"
    /\ op.kind = "none"
    /\ LET existing_comparison == FindByName(appSettings.COMPARISONS, token)
           o == [Idle EXCEPT !.kind = "END", !.token = token, !.value = value]
       IN  IF EndError(existing_comparison) # NoError
           THEN /\ op' = Returns(o, EndError(existing_comparison))
                /\ UNCHANGED appSettings
           ELSE LET date == IF Truthy(existing_comparison.date)
                            THEN Date(now) ELSE Null
                    duration == IF date # Null
                                THEN calculateDuration(existing_comparison.date, date)
                                ELSE Null
                    comparison == EndComparison(existing_comparison, value)
                IN  /\ HandlesUsed(host) + 2 <= MaxHandles
                    /\ updateSettingsCall(
                          [o EXCEPT !.duration = duration, !.comparison = comparison],
                          EndSettings(appSettings, token, duration, comparison),
                          FALSE)
    /\ UNCHANGED <<stored, TOKENS, host, pending, phase, suspended>>

\* action_SET_CURRENCY(token, number, currency), lines 175-180.
action_SET_CURRENCY(token, number, currency) ==
    /\ phase = "running"
    /\ op.kind = "none"
    /\ HasRoom(token, "currency")
    /\ LET o == [Idle EXCEPT !.kind = "SET_CURRENCY", !.token = token]
       IN  IF currencyCodeValid(currency)
           THEN AwaitCreateToken(o, token, "currency",
                                 toLocaleString(number, currency), "string")
           ELSE /\ op' = Returns(o, "RangeError")
                /\ UNCHANGED <<TOKENS, host, pending>>
    /\ UNCHANGED <<appSettings, stored, phase, suspended>>

\* action_CALCULATION(token, calcType, number1, number2), lines 182-187.
action_CALCULATION(token, calcType, number1, number2) ==
    /\ phase = "running"
    /\ op.kind = "none"
    /\ HasRoom(token, "calculation")
    /\ LET o == [Idle EXCEPT !.kind = "CALCULATION", !.token = token]
       IN  IF calculationTypeKnown(calcType)
           THEN AwaitCreateToken(o, token, "calculation",
                                 calculationType(calcType, number1, number2), "string")
           ELSE /\ op' = Returns(o, "InvalidOperation")
                /\ UNCHANGED <<TOKENS, host, pending>>
    /\ UNCHANGED <<appSettings, stored, phase, suspended>>

\* ------------------------------------------------------------------ replies

\* What the operation o does once its createToken call has set the value,
\* i.e. after line 169, 171, 179 or 186.
AfterCreateToken(o) ==
    IF o.kind = "END" /\ o.src = "duration" /\ PublishesComparison(o.comparison)
    THEN AwaitCreateToken(o, o.token, "comparison", parseFloat(o.comparison), "number")
    ELSE /\ op' = Returns(o, NoError)
         /\ UNCHANGED <<TOKENS, host, pending>>

\* The host answers this.homey.settings.set (line 66), with success or with
\* an error; updateSettings and then its caller run on.
SettingsSetReply(ok) ==
    /\ op.pc = "set"
    /\ stored' = IF ok THEN op.doc ELSE stored
    /\ LET o == [op EXCEPT !.writeFailed = ~ok]
           err == IF ok THEN NoError ELSE updateSettingsCatch("PersistenceFailure")
           ts == updateSettingsResume(TokenState, op, ok)
       IN  IF err # NoError
           THEN /\ op' = Returns(o, err)
                /\ phase' = IF op.kind = "onInit" THEN "failed" ELSE phase
                /\ UNCHANGED <<TOKENS, host, pending>>
           ELSE CASE op.kind = "onInit" ->
                       \* lines 24-28
                       /\ TokensBecome(setTokens(ts, appSettings.VARIABLES, <<>>))
                       /\ op' = Returns(o, NoError)
                       /\ phase' = "running"
                  [] op.kind = "END" ->
                       \* line 169
                       /\ AwaitCreateToken(o, op.token, "duration", op.duration, "string")
                       /\ UNCHANGED phase
                  [] OTHER ->
                       /\ TokensBecome(ts)
                       /\ op' = Returns(o, NoError)
                       /\ UNCHANGED phase
    /\ appSettings' = SettingsAfterReply(appSettings, op.doc)
    /\ UNCHANGED suspended

\* The host answers the oldest createToken call: line 109 stores the handle
\* and line 116 sets the value; an awaited call then waits for setValue.
CreateTokenReply ==
    /\ pending # <<>>
    /\ LET p == Head(pending)
       IN  /\ TOKENS' = [TOKENS EXCEPT ![p.id] = p.h]
           /\ host' = HostSetValue(host, p.id, p.h, p.value)
           /\ pending' = Tail(pending)
           /\ op' = IF p.owner = "awaited" THEN [op EXCEPT !.pc = "setValue"] ELSE op
    /\ UNCHANGED <<appSettings, stored, phase, suspended>>

\* The host answers the setValue call an operation waits for (line 116).
SetValueReply ==
    /\ op.pc = "setValue"
    /\ AfterCreateToken(op)
    /\ UNCHANGED <<appSettings, stored, phase, suspended>>

\* The operation's promise settles: the host may start the next one.
Return ==
    /\ op.pc = "return"
    /\ op' = Idle
    /\ UNCHANGED <<appSettings, stored, TOKENS, host, pending, phase, suspended>>

\* ------------------------------------------------------------------ behaviours

EndValues == {Null} \cup {Num(n) : n \in Numbers}

Next ==
    \/ \E readFails \in BOOLEAN : onInit(readFails)
    \/ Restart
    \/ \E variables \in VarLists : updateSettings(variables)
    \/ \E token \in Names, options \in StartOptions, now \in Times :
            action_START(token, options.dateStart, now, Num(options.comparison))
    \/ \E token \in Names, value \in EndValues, now \in Times :
            action_END(token, value, now)
    \/ \E token \in Names, number \in CurrencyNumbers, currency \in CurrencyCodes :
            action_SET_CURRENCY(token, number, currency)
    \/ \E token \in Names, calcType \in CalcTypes,
          number1 \in CalcOperands, number2 \in CalcOperands :
            action_CALCULATION(token, calcType, number1, number2)
    \/ \E ok \in BOOLEAN : SettingsSetReply(ok)
    \/ CreateTokenReply
    \/ SetValueReply
    \/ Return

Spec == Init /\ [][Next]_vars

\* ------------------------------------------------------------------ claims

\* The indices of the entries of a COMPARISONS or TOTALS list for a name.
EntriesFor(list, name) == {i \in 1..Len(list) : list[i].token = name}

\* C1: in every reachable state the settings document holds at most one
\* COMPARISONS entry and at most one TOTALS entry for any given name.
C1_OneEntryPerName ==
    appSettings # UndefinedObject =>
        \A name \in Names :
            /\ Cardinality(EntriesFor(appSettings.COMPARISONS, name)) <= 1
            /\ Cardinality(EntriesFor(appSettings.TOTALS, name)) <= 1

\* C2: end(name, finalValue) called when COMPARISONS holds no entry for name
\* fails with NotFound and leaves the in-memory document, the persisted
\* document and the token registry as they were.
C2_EndWithoutStartIsNotFound ==
    [][(/\ op.kind = "none"
        /\ op'.kind = "END"
        /\ EntriesFor(appSettings.COMPARISONS, op'.token) = {})
       => /\ op'.pc = "return"
          /\ op'.result = "NotFound"
          /\ UNCHANGED <<appSettings, stored, TOKENS, host, pending>>]_vars

\* The comparison value the claims expect of end(name, v2) after start(name, v):
\* v2 - v to two decimals.
ExpectedComparison(v, v2) == v2[2] - v[2]

\* The number a TOTALS entry carries as its comparison.
ComparisonOf(entry) == entry.comparison[2]

\* C3: start(name, v) followed by end(name, v2) completes without error and
\* leaves a TOTALS entry for name whose comparison equals v2 - v.  Stated of
\* an END whose name was started last and whose final value is a number.
C3_StartThenEnd ==
    (/\ op.kind = "END"
     /\ op.pc = "return"
     /\ op.value # Null
     /\ appSettings.COMPARISONS # <<>>
     /\ appSettings.COMPARISONS[Len(appSettings.COMPARISONS)].token = op.token)
    => /\ op.result = NoError
       /\ \E i \in EntriesFor(appSettings.TOTALS, op.token) :
              ComparisonOf(appSettings.TOTALS[i]) =
                  ExpectedComparison(
                      appSettings.COMPARISONS[Len(appSettings.COMPARISONS)].comparison,
                      op.value)

\* C8: start(name, v) always succeeds and starting again discards the previous
\* comparison: once start(name, v2) has run, the only COMPARISONS entry for
\* name is the one carrying the baseline v2 (the entry a following end(name, f)
\* is to compute against).
C8_RestartDiscardsPrevious ==
    (op.kind = "START" /\ op.pc = "return")
    => /\ op.result = NoError
       /\ \A i \in EntriesFor(appSettings.COMPARISONS, op.token) :
              appSettings.COMPARISONS[i].comparison = op.value
       /\ Cardinality(EntriesFor(appSettings.COMPARISONS, op.token)) = 1

\* The handles of the live host tokens of an identifier (registered, or
\* being registered, and not unregistered).
LiveTokens(id) == {h \in 1..Len(host[id]) : host[id][h].live}

\* An external updateSettings(settings, true) has written the document, has
\* run setTokens, and every host call of the reconciliation has been answered.
ReconciliationDone ==
    /\ op.kind = "updateSettings"
    /\ op.pc = "return"
    /\ ~op.writeFailed
    /\ pending = <<>>

\* No identifier has been registered with the host twice since the app started.
NeverRegisteredTwice == \A id \in Ids : Len(host[id]) <= 1

\* C4: after the reconciliation setTokens(newNames, oldNames) has taken
\* effect, every name in newNames has exactly four tokens, one of each kind,
\* each with value null.  Stated of the runs in which no identifier was
\* registered twice, so that a violation does not rest on the race of C7.
C4_FourNullTokensPerName ==
    (ReconciliationDone /\ NeverRegisteredTwice) =>
        \A i \in 1..Len(op.doc.VARIABLES) : \A k \in 1..4 :
            LET id == formatToken(op.doc.VARIABLES[i], Kinds[k])
            IN  /\ Cardinality(LiveTokens(id)) = 1
                /\ \A h \in LiveTokens(id) : host[id][h].value = Null

\* C5: after a settings update with token sync whose new VARIABLES list omits
\* a name of the old list, none of that name's four tokens remains registered.
C5_RemovedNamesHaveNoTokens ==
    ReconciliationDone =>
        LET removed == Difference(op.old.VARIABLES, op.doc.VARIABLES)
        IN  \A i \in 1..Len(removed) : \A k \in 1..4 :
                LiveTokens(formatToken(removed[i], Kinds[k])) = {}

\* C6: a second setTokens(newNames, oldNames) with the same lists, after the
\* first has taken effect, issues no host createToken and no host unregister
\* call: only setValue resets.
C6_SecondReconciliationOnlyResets ==
    ReconciliationDone =>
        \A call \in setTokens(TokenState, op.doc.VARIABLES, op.old.VARIABLES).calls :
            call[1] = "setValue"

\* C7: the host createToken call is never issued for an identifier that has a
\* registration already, live or in flight: every identifier has at most one
\* live host registration at any time.
C7_AtMostOneRegistrationPerId ==
    \A id \in Ids : Cardinality(LiveTokens(id)) <= 1

\* C9: when the host settings write fails during updateSettings, the error is
\* not propagated: the call completes normally, the in-memory document is the
\* new one, the persisted document is still the old one, and no token
\* reconciliation is performed, whatever triggerTokenSync is.  Stated of the
\* callers that do nothing to the tokens themselves after updateSettings
\* returns: onInit on first start, the external update, action_START.
C9_WriteFailureIsSwallowed ==
    [][(/\ op.pc = "set"
        /\ op.kind \in {"onInit", "updateSettings", "START"}
        /\ op'.writeFailed)
       => /\ op'.pc = "return"
          /\ op'.result = NoError
          /\ appSettings = op.doc
          /\ appSettings' = op.doc
          /\ stored' = stored
          /\ UNCHANGED <<TOKENS, host, pending>>]_vars

\* An external update with token sync that changes VARIABLES has returned
\* after its write failed: memory and store now differ.
C9_Witness ==
    /\ op.kind = "updateSettings"
    /\ op.pc = "return"
    /\ op.update
    /\ op.writeFailed
    /\ op.doc.VARIABLES # op.old.VARIABLES
    /\ appSettings = op.doc
    /\ stored = op.old

\* The kind of token a flow action publishes its result to.
PublishedKind(kind) == IF kind = "SET_CURRENCY" THEN "currency" ELSE "calculation"

\* C10: SET_CURRENCY and CALCULATION never write the settings document, in
\* memory or persisted, and no step of theirs changes the registry entry, the
\* host tokens or the value of any token other than the currency token,
\* respectively the calculation token, of the given name.
C10_FlowActionsTouchOneToken ==
    [][(op' # op /\ op'.kind \in {"SET_CURRENCY", "CALCULATION"})
       => /\ UNCHANGED <<appSettings, stored>>
          /\ \A id \in Ids \ {formatToken(op'.token, PublishedKind(op'.kind))} :
                 /\ host'[id] = host[id]
                 /\ TOKENS'[id] = TOKENS[id]]_vars

\* SET_CURRENCY has published its text to the currency token of its name while
\* the other three tokens of the name are registered with value null and a
\* comparison is running.
C10_Witness ==
    /\ op.kind = "SET_CURRENCY"
    /\ op.pc = "return"
    /\ op.result = NoError
    /\ LET id == formatToken(op.token, "currency")
       IN  /\ TOKENS[id] # 0
           /\ host[id][TOKENS[id]].live
           /\ host[id][TOKENS[id]].value[1] = "currency"
    /\ \A src \in {"duration", "comparison", "calculation"} :
           LET id == formatToken(op.token, src)
           IN  /\ TOKENS[id] # 0
               /\ host[id][TOKENS[id]].live
               /\ host[id][TOKENS[id]].value = Null
    /\ appSettings.COMPARISONS # <<>>

\* No operation is in progress and every host call has been answered.
Quiescent ==
    /\ phase = "running"
    /\ op.kind = "none"
    /\ pending = <<>>

\* C11: whenever no action is in progress, a token is registered with the
\* host if and only if it is one of the four kind-tokens of a name currently
\* in VARIABLES.  Stated of the states whose document has been persisted, so
\* that a violation does not rest on a failed settings write.
C11_TokensMatchVariables ==
    (Quiescent /\ stored = appSettings) =>
        \A id \in Ids :
            LiveTokens(id) # {} <=> Includes(appSettings.VARIABLES, id[1])

\* C12: when a top-level operation returns to the host, no host call that it
\* issued is still pending.  Operations run one after the other, so a call
\* pending at any return was left pending by the operation that issued it.
C12_ReturnsWithNothingPending ==
    op.pc = "return" => pending = <<>>

\* The steps of the program when the host answers every settings write with
\* success.
NextWritesSucceed ==
    \/ \E readFails \in BOOLEAN : onInit(readFails)
    \/ Restart
    \/ \E variables \in VarLists : updateSettings(variables)
    \/ \E token \in Names, options \in StartOptions, now \in Times :
            action_START(token, options.dateStart, now, Num(options.comparison))
    \/ \E token \in Names, value \in EndValues, now \in Times :
            action_END(token, value, now)
    \/ \E token \in Names, number \in CurrencyNumbers, currency \in CurrencyCodes :
            action_SET_CURRENCY(token, number, currency)
    \/ \E token \in Names, calcType \in CalcTypes,
          number1 \in CalcOperands, number2 \in CalcOperands :
            action_CALCULATION(token, calcType, number1, number2)
    \/ SettingsSetReply(TRUE)
    \/ CreateTokenReply
    \/ SetValueReply
    \/ Return

SpecWritesSucceed == Init /\ [][NextWritesSucceed]_vars

\* The app runs and no settings write is waiting for its answer.
SettingsSettled == phase = "running" /\ op.pc # "set"

\* C13: when every host settings write succeeds, the persisted document
\* equals the in-memory document whenever no write is in flight; a restart
\* keeps the persisted document, and initSettings reading the stored key
\* yields that document, with the VARIABLES, COMPARISONS and TOTALS the
\* process held before the restart.
C13_SettingsRoundTrip ==
    [][/\ SettingsSettled' => stored' = appSettings'
       /\ (SettingsSettled /\ phase' = "constructed") => stored' = appSettings
       /\ (/\ phase = "constructed"
           /\ stored # Absent
           /\ op'.kind = "onInit"
           /\ op'.result = NoError)
          => /\ appSettings' = stored
             /\ stored' = stored]_vars

\* The app has been restarted and onInit has read back the document with the
\* tracked name and the running comparison written before the restart.
C13_Witness ==
    /\ op.kind = "onInit"
    /\ op.pc = "return"
    /\ op.result = NoError
    /\ op.doc = UndefinedObject
    /\ appSettings = stored
    /\ appSettings.VARIABLES # <<>>
    /\ appSettings.COMPARISONS # <<>>

\* The host tokens of an identifier that have been unregistered.
UnregisteredTokens(id) == {h \in 1..Len(host[id]) : ~host[id][h].live}

\* C14: a name removed from VARIABLES and later added again gets its four
\* tokens registered with the host again: after the re-adding reconciliation
\* each of its four identifiers, unregistered before, has a live host
\* registration, and the handle the registry holds for it, the one setValue
\* is sent to, is not an unregistered one.
C14_ReaddedNameIsRegisteredAgain ==
    ReconciliationDone =>
        \A i \in 1..Len(op.doc.VARIABLES) : \A k \in 1..4 :
            LET id == formatToken(op.doc.VARIABLES[i], Kinds[k])
            IN  UnregisteredTokens(id) # {} =>
                    /\ LiveTokens(id) # {}
                    /\ TOKENS[id] \notin UnregisteredTokens(id)

\* C15: whenever finalValue is supplied to end(name, finalValue), for every
\* numeric finalValue, 0 and the baseline included, a comparison value is
\* computed and the comparison token is set to it.  Stated of what action_END
\* computes and publishes for every running comparison of the document and
\* every supplied final value.
C15_SuppliedValueIsCompared ==
    appSettings # UndefinedObject =>
        \A i \in 1..Len(appSettings.COMPARISONS) : \A value \in EndValues \ {Null} :
            LET comparison == EndComparison(appSettings.COMPARISONS[i], value)
            IN  /\ comparison # Null
                /\ PublishesComparison(comparison)

\* C16: end(name, finalValue) consumes the comparison: the document it
\* writes holds no running COMPARISONS entry for name, so that a second end
\* of the name finds none.  Stated of the document action_END builds from
\* any document the process holds.
C16_EndConsumesComparison ==
    appSettings # UndefinedObject =>
        \A name \in Names :
            EntriesFor(EndSettings(appSettings, name, Null, Null).COMPARISONS, name) = {}

\* C17: removeToken(name, kind) on an identifier that has a registry entry
\* issues the host unregister call for it, and no other call, and afterwards
\* the registry holds no entry for the identifier; on an identifier without
\* a registry entry it issues no host call and changes no state.
C17_RemoveTokenDropsEntry ==
    \A name \in Names : \A k \in 1..4 :
        LET id == formatToken(name, Kinds[k])
            after == removeToken(TokenState, name, Kinds[k])
        IN  IF TOKENS[id] # 0
            THEN /\ after.calls = {<<"unregister", id>>}
                 /\ after.TOKENS[id] = 0
            ELSE after = TokenState

\* The entries of a COMPARISONS or TOTALS list that belong to other names.
OtherEntries(list, name) == SelectSeq(list, LAMBDA x : x.token # name)

\* The identifiers of the duration and comparison tokens of a name.
EndTokens(name) == {formatToken(name, "duration"), formatToken(name, "comparison")}

\* C18: no step of start(name, v) changes VARIABLES, TOTALS, the COMPARISONS
\* entries of another name, the token registry or the host's tokens, and it
\* issues no host token call; no step of end(name, v) changes VARIABLES,
\* COMPARISONS, the TOTALS entries of another name, or the registry entry or
\* host token of any identifier but the duration and comparison tokens of name.
C18_StartAndEndFrame ==
    [][/\ (op' # op /\ op'.kind = "START")
          => /\ appSettings'.VARIABLES = appSettings.VARIABLES
             /\ appSettings'.TOTALS = appSettings.TOTALS
             /\ OtherEntries(appSettings'.COMPARISONS, op'.token)
                    = OtherEntries(appSettings.COMPARISONS, op'.token)
             /\ UNCHANGED <<TOKENS, host, pending>>
       /\ (op' # op /\ op'.kind = "END")
          => /\ appSettings'.VARIABLES = appSettings.VARIABLES
             /\ appSettings'.COMPARISONS = appSettings.COMPARISONS
             /\ OtherEntries(appSettings'.TOTALS, op'.token)
                    = OtherEntries(appSettings.TOTALS, op'.token)
             /\ \A id \in Ids \ EndTokens(op'.token) :
                    /\ host'[id] = host[id]
                    /\ TOKENS'[id] = TOKENS[id]]_vars

\* start has returned for a name while the document tracks a name, holds a
\* running comparison of another name, and tokens are registered.
C18_Witness ==
    /\ op.kind = "START"
    /\ op.pc = "return"
    /\ ~op.writeFailed
    /\ appSettings.VARIABLES # <<>>
    /\ OtherEntries(appSettings.COMPARISONS, op.token) # <<>>
    /\ EntriesFor(appSettings.COMPARISONS, op.token) # {}
    /\ \E id \in Ids : TOKENS[id] # 0 /\ LiveTokens(id) # {}

\* C19: startup always ends with a defined settings document: when onInit
\* returns, failing host settings reads and writes included, it has not
\* thrown, the in-memory document is defined, and it equals the persisted one.
C19_OnInitEndsWithDocument ==
    (op.kind = "onInit" /\ op.pc = "return")
    => /\ op.result = NoError
       /\ appSettings # UndefinedObject
       /\ appSettings = stored

\* ------------------------------------------------------------------ overlap

\* The sequence s without its element i.
RemoveAt(s, i) == [j \in 1..(Len(s) - 1) |-> IF j < i THEN s[j] ELSE s[j + 1]]

\* While action_START waits for the answer to its settings write (line 66),
\* the host calls the next operation: the waiting call is set aside.
Suspend ==
    /\ op.kind = "START"
    /\ op.pc = "set"
    /\ Len(suspended) < MaxSuspended
    /\ suspended' = Append(suspended, op)
    /\ op' = Idle
    /\ UNCHANGED <<appSettings, stored, TOKENS, host, pending, phase>>

\* The host answers the settings write of a call set aside: updateSettings
\* (lines 66-73, no token sync) and action_START run to their end.
SuspendedSetReply(i, ok) ==
    /\ i \in 1..Len(suspended)
    /\ suspended[i].pc = "set"
    /\ stored' = IF ok THEN suspended[i].doc ELSE stored
    /\ appSettings' = SettingsAfterReply(appSettings, suspended[i].doc)
    /\ LET err == IF ok THEN NoError ELSE updateSettingsCatch("PersistenceFailure")
       IN  suspended' = [suspended EXCEPT
                            ![i] = Returns([@ EXCEPT !.writeFailed = ~ok], err)]
    /\ UNCHANGED <<TOKENS, host, pending, op, phase>>

\* The promise of a call set aside settles.
SuspendedReturn(i) ==
    /\ i \in 1..Len(suspended)
    /\ suspended[i].pc = "return"
    /\ suspended' = RemoveAt(suspended, i)
    /\ UNCHANGED <<appSettings, stored, TOKENS, host, pending, op, phase>>

\* The steps of the program when the host calls operations while an
\* action_START is waiting for its settings write.
NextInterleaved ==
    \/ \E readFails \in BOOLEAN : onInit(readFails)
    \/ Restart
    \/ \E variables \in VarLists : updateSettings(variables)
    \/ \E token \in Names, options \in StartOptions, now \in Times :
            action_START(token, options.dateStart, now, Num(options.comparison))
    \/ \E token \in Names, value \in EndValues, now \in Times :
            action_END(token, value, now)
    \/ \E token \in Names, number \in CurrencyNumbers, currency \in CurrencyCodes :
            action_SET_CURRENCY(token, number, currency)
    \/ \E token \in Names, calcType \in CalcTypes,
          number1 \in CalcOperands, number2 \in CalcOperands :
            action_CALCULATION(token, calcType, number1, number2)
    \/ \E ok \in BOOLEAN : SettingsSetReply(ok)
    \/ CreateTokenReply
    \/ SetValueReply
    \/ Return
    \/ Suspend
    \/ \E i \in 1..MaxSuspended, ok \in BOOLEAN : SuspendedSetReply(i, ok)
    \/ \E i \in 1..MaxSuspended : SuspendedReturn(i)

SpecInterleaved == Init /\ [][NextInterleaved]_vars

\* The operations that are running or have finished and not yet returned.
Operations == {op} \cup {suspended[i] : i \in 1..Len(suspended)}

\* The COMPARISONS entry an action_START call wrote: the last one of the
\* document it handed to updateSettings.
WrittenBy(o) == o.doc.COMPARISONS[Len(o.doc.COMPARISONS)]

\* C20: no update of the in-memory document is lost when actions interleave
\* at the settings write: as long as an action_START call is waiting for its
\* write or has finished, the in-memory document contains the entry it wrote,
\* whatever other operations were called and answered in between.
C20_NoLostUpdate ==
    \A o \in Operations :
        (o.kind = "START" /\ o.pc \in {"set", "return"})
        => \E i \in 1..Len(appSettings.COMPARISONS) :
               appSettings.COMPARISONS[i] = WrittenBy(o)

\* Two overlapping starts of different names have both finished, the later
\* call's write answered before the earlier call's: the in-memory document
\* holds both entries while the persisted one is the earlier call's.
C20_Witness ==
    /\ op.kind = "START"
    /\ op.pc = "return"
    /\ ~op.writeFailed
    /\ Len(suspended) = 1
    /\ suspended[1].kind = "START"
    /\ suspended[1].pc = "return"
    /\ ~suspended[1].writeFailed
    /\ suspended[1].token # op.token
    /\ stored = suspended[1].doc
    /\ stored # appSettings
    /\ EntriesFor(appSettings.COMPARISONS, op.token) # {}
    /\ EntriesFor(appSettings.COMPARISONS, suspended[1].token) # {}

====
